---- MODULE Spec2Model ----
(***************************************************************************)
(* The chat demo: the express server (demo/server/src/index.ts) that keeps *)
(* the chats in memory behind a bearer-token check, and the Flutter        *)
(* client's ChatProvider that mirrors one chat of it.                      *)
(*                                                                         *)
(* Spec    : the server under arbitrary callers (any header, any route).   *)
(* AppSpec : one installation of the client, signed in as ClientUser,      *)
(*           talking to the same server.                                   *)
(*                                                                         *)
(* A step is what runs between two suspension points of the event loop:    *)
(* node and Dart both run a handler up to its next await without           *)
(* interleaving.  createdAt (new Date()) is not modelled: nothing reads it.*)
(*                                                                         *)
(* A request enters the model where it reaches chatRouter.  The            *)
(* middlewares in front of the router (cors, the rate limiter, the JSON    *)
(* body parser, the logger) are not modelled: a request one of them        *)
(* answers reaches neither authenticate nor the store.  v4() is modelled   *)
(* as a fresh identifier on every call.  SharedPreferences writes the      *)
(* value when setString is called and completes the calls in call order.   *)
(***************************************************************************)
EXTENDS Integers, Sequences, FiniteSets, TLC

VARIABLES
    chats,        \* index.ts: const chats: Chat[]
    uuids,        \* number of identifiers v4() has handed out
    reqs,         \* the HTTP requests in flight on the server, per connection slot
    createLog,    \* history: <<uid, chat id>> of every chat created, in order
    currentChat,  \* ChatProvider._currentChat
    prefs,        \* SharedPreferences 'chatId'
    spCached,     \* SharedPreferences.getInstance() has completed once
    spWrites,     \* the setString calls not yet completed, oldest first
    ops,          \* the client's asynchronous calls in flight
    restarts      \* number of times the app was restarted

server == <<chats, uuids, createLog>>
client == <<currentChat, prefs, spCached, spWrites, ops, restarts>>
vars == <<chats, uuids, reqs, createLog, currentChat, prefs, spCached, spWrites, ops,
          restarts>>

----------------------------------------------------------------------------
(* Bounds *)

MaxRequests == 2    \* requests the server handles at the same time
MaxUuids == 4       \* identifiers (chats and messages) created in a run
MaxTaps == 2        \* refresh taps whose startNewChat overlap
MaxRestarts == 1    \* restarts of the app

Slots == 1 .. MaxRequests

----------------------------------------------------------------------------
(* Values *)

Null == "null"                 \* null / undefined
Users == {"alice", "bob"}
UserTexts == {"hi"}            \* req.body.text
BotTexts == {"hello"}          \* content of a completion choice
NoMessage == "no message"      \* a choice that carries no message object

\* An Authorization header, as the pieces String.split('Bearer ') cuts it in;
\* <<>> is the absent header.
NoHeader == <<>>
BearerOf(token) == <<"", token>>
Headers == {NoHeader, BearerOf("tokenAlice"), BearerOf("tokenBob"), BearerOf("forged")}

\* The identity provider: the tokens it signed, and for whom.
IdTokens == [tokenAlice |-> "alice", tokenBob |-> "bob"]

Routes == {"POST /chat/", "POST /chat/:id/messages/", "GET /chat/:id/response/",
           "GET /chat/:id/", "GET /chat/"}
IdRoutes == {"POST /chat/:id/messages/", "GET /chat/:id/response/", "GET /chat/:id/"}
Allocating == {"POST /chat/", "POST /chat/:id/messages/", "GET /chat/:id/response/"}

\* Response bodies: res.send(text) and res.json(value)
Send(text) == [send |-> text]
NoBody == [none |-> TRUE]

Min(S) == CHOOSE m \in S : \A n \in S : m <= n

----------------------------------------------------------------------------
(* index.ts: the data model *)

V4 == uuids + 1

ChatEmpty(userId) ==
    [id |-> V4, messages |-> <<>>, title |-> "New Chat", userId |-> userId]

MessageNow(text, userId, sender) ==
    [id |-> V4, text |-> text, userId |-> userId, sender |-> sender]

MessageToJson(message) ==
    [id |-> message.id, text |-> message.text, userId |-> message.userId,
     sender |-> message.sender]

ChatToJson(chat) ==
    [id |-> chat.id,
     messages |-> [k \in 1 .. Len(chat.messages) |-> MessageToJson(chat.messages[k])],
     title |-> chat.title, userId |-> chat.userId]

\* chats.find(...): the index of the first match, 0 for undefined
FindChatAnyOwner(chatId, uid) ==
    LET hits == {i \in 1 .. Len(chats) : chats[i].id = chatId}
    IN  IF hits = {} THEN 0 ELSE Min(hits)

FindChat(chatId, uid) ==
    LET hits == {i \in 1 .. Len(chats) : chats[i].id = chatId /\ chats[i].userId = uid}
    IN  IF hits = {} THEN 0 ELSE Min(hits)

MapMessages(chat) ==
    [k \in 1 .. Len(chat.messages) |->
        [content |-> chat.messages[k].text,
         role |-> IF chat.messages[k].sender = "user" THEN "user" ELSE "assistant"]]

----------------------------------------------------------------------------
(* index.ts: authenticate *)

\* req.headers.authorization?.split('Bearer ')[1]
BearerToken(header) ==
    IF header = NoHeader THEN Null
    ELSE IF Len(header) >= 2 THEN header[2] ELSE Null

\* admin.auth().verifyIdToken(token): the decoded uid, or a rejection
VerifyIdToken(token) ==
    IF token \in DOMAIN IdTokens
    THEN [ok |-> TRUE, uid |-> IdTokens[token]]
    ELSE [ok |-> FALSE, uid |-> Null]

\* A verifier that decodes the token without checking who signed it.
AuthenticateUnverified(header) ==
    LET token == BearerToken(header)
    IN  IF token = Null THEN [next |-> FALSE, uid |-> Null]
        ELSE IF VerifyIdToken(token).ok
             THEN [next |-> TRUE, uid |-> VerifyIdToken(token).uid]
             ELSE [next |-> TRUE, uid |-> "alice"]

\* Whether authenticate calls next(), and the uid it binds to req.user
Authenticate(header) ==
    LET token == BearerToken(header)
    IN  IF token = Null THEN [next |-> FALSE, uid |-> Null]
        ELSE IF VerifyIdToken(token).ok
             THEN [next |-> TRUE, uid |-> VerifyIdToken(token).uid]
             ELSE [next |-> FALSE, uid |-> Null]

----------------------------------------------------------------------------
(* Requests *)

\* The handler's local `response` before the completion settles
NoResponse == [error |-> "pending", choices |-> <<>>]

FreeSlot ==
    [pc |-> "free", route |-> "none", header |-> NoHeader, id |-> 0, text |-> Null,
     user |-> Null, chat |-> 0, history |-> <<>>, response |-> NoResponse,
     status |-> 0, body |-> NoBody,
     entered |-> FALSE, caller |-> "none"]

Respond(req, status, body) ==
    [req EXCEPT !.pc = "responded", !.status = status, !.body = body]

\* A request reaches the router: authenticate runs up to verifyIdToken, or
\* answers 401 at once when the header carries no token.
Arrival(route, header, id, text, caller) ==
    LET req == [FreeSlot EXCEPT !.route = route, !.header = header, !.id = id,
                                !.text = text, !.caller = caller]
    IN  IF BearerToken(header) = Null
        THEN Respond(req, 401, Send("Unauthorized"))
        ELSE [req EXCEPT !.pc = "verifying"]

\* Identifiers not yet handed out that requests in flight may still take.
Pending == Cardinality({s \in Slots : /\ reqs[s].pc \in {"verifying", "completing"}
                                      /\ reqs[s].route \in Allocating})

----------------------------------------------------------------------------
(* index.ts: the route handlers.  next() runs the handler in the step in   *)
(* which verifyIdToken resolves.                                           *)

\* authenticate's catch branch: verifyIdToken rejected the token
Unauthorized(s) ==
    /\ reqs[s].pc = "verifying"
    /\ ~Authenticate(reqs[s].header).next
    /\ reqs' = [reqs EXCEPT ![s] = Respond(@, 401, Send("Unauthorized"))]
    /\ UNCHANGED <<server, client>>

Entered(s, route) ==
    /\ reqs[s].pc = "verifying"
    /\ reqs[s].route = route
    /\ Authenticate(reqs[s].header).next

Uid(s) == Authenticate(reqs[s].header).uid

Bound(req, uid) == [req EXCEPT !.user = uid, !.entered = TRUE]

\* chatRouter.post('/')
CreateChat(s) ==
    /\ Entered(s, "POST /chat/")
    /\ LET createdChat == ChatEmpty(Uid(s))
       IN  /\ chats' = Append(chats, createdChat)
           /\ uuids' = uuids + 1
           /\ createLog' = Append(createLog, <<Uid(s), createdChat.id>>)
           /\ reqs' = [reqs EXCEPT ![s] =
                  Respond(Bound(@, Uid(s)), 200, [chat |-> ChatToJson(createdChat)])]
    /\ UNCHANGED client

\* chat.messages.unshift(message) in place of push
PushedFirst(i, message) ==
    [chats EXCEPT ![i].messages = <<message>> \o @]

\* chat.messages.push(message)
Pushed(i, message) ==
    [chats EXCEPT ![i].messages = Append(@, message)]

\* A handler that builds the user message with the text left out
UserMessageBlank(text, uid) == MessageNow(Null, uid, "user")

\* Message.now(req.body.text, user.uid, Sender.User)
UserMessage(text, uid) == MessageNow(text, uid, "user")

\* chatRouter.post('/:id/messages/')
PostMessage(s) ==
    /\ Entered(s, "POST /chat/:id/messages/")
    /\ LET i == FindChat(reqs[s].id, Uid(s))
           message == UserMessage(reqs[s].text, Uid(s))
       IN  IF i = 0
           THEN /\ reqs' = [reqs EXCEPT ![s] =
                       Respond(Bound(@, Uid(s)), 404, Send("Chat not found"))]
                /\ UNCHANGED server
           ELSE /\ chats' = Pushed(i, message)
                /\ uuids' = uuids + 1
                /\ reqs' = [reqs EXCEPT ![s] =
                       Respond(Bound(@, Uid(s)), 200, [message |-> MessageToJson(message)])]
                /\ UNCHANGED createLog
    /\ UNCHANGED client

\* A handler that waits while another reply request holds the chat
GetResponseLocked(s) ==
    /\ Entered(s, "GET /chat/:id/response/")
    /\ ~\E t \in Slots : /\ t # s
                         /\ reqs[t].pc = "completing"
                         /\ reqs[t].chat = FindChat(reqs[s].id, Uid(s))
    /\ LET i == FindChat(reqs[s].id, Uid(s))
       IN  IF i = 0
           THEN reqs' = [reqs EXCEPT ![s] =
                    Respond(Bound(@, Uid(s)), 404, Send("Chat not found"))]
           ELSE reqs' = [reqs EXCEPT ![s] =
                    [Bound(@, Uid(s)) EXCEPT !.pc = "completing", !.chat = i,
                                             !.history = MapMessages(chats[i])]]
    /\ UNCHANGED <<server, client>>

\* chatRouter.get('/:id/response/') up to the await of the completion
GetResponse(s) ==
    /\ Entered(s, "GET /chat/:id/response/")
    /\ LET i == FindChat(reqs[s].id, Uid(s))
       IN  IF i = 0
           THEN reqs' = [reqs EXCEPT ![s] =
                    Respond(Bound(@, Uid(s)), 404, Send("Chat not found"))]
           ELSE reqs' = [reqs EXCEPT ![s] =
                    [Bound(@, Uid(s)) EXCEPT !.pc = "completing", !.chat = i,
                                             !.history = MapMessages(chats[i])]]
    /\ UNCHANGED <<server, client>>

\* What openai.chat.completions.create settles with: a rejection (error), or
\* a reply whose choices are listed by their message content.
Completions ==
    {[error |-> "network", choices |-> <<>>],
     [error |-> "api", choices |-> <<>>],
     [error |-> "none", choices |-> <<>>],
     [error |-> "none", choices |-> <<NoMessage>>],
     [error |-> "none", choices |-> <<Null>>]}
    \cup {[error |-> "none", choices |-> <<t>>] : t \in BotTexts}
    \cup {[error |-> "none", choices |-> <<t, "other">>] : t \in BotTexts}

\* The await rejects, or response.choices[0].message.content throws a TypeError
Throws(completion) ==
    \/ completion.error # "none"
    \/ completion.choices = <<>>
    \/ completion.choices[1] = NoMessage

\* A handler that appends a placeholder before it reports the failure
FailedAppending(s, completion) ==
    /\ chats' = Pushed(reqs[s].chat, MessageNow(Null, reqs[s].user, "bot"))
    /\ uuids' = uuids + 1
    /\ reqs' = [reqs EXCEPT ![s] =
           Respond([@ EXCEPT !.response = completion], 500, Send("Something broke!"))]
    /\ UNCHANGED createLog

\* catch (error) { next(error) } and errorHandler
Failed(s, completion) ==
    /\ reqs' = [reqs EXCEPT ![s] =
           Respond([@ EXCEPT !.response = completion], 500, Send("Something broke!"))]
    /\ UNCHANGED server

\* A handler that answers with the last choice
ChosenLast(completion) == completion.choices[Len(completion.choices)]

\* response.choices[0].message.content
Chosen(completion) == completion.choices[1]

\* chatRouter.get('/:id/response/') from the await on
Completed(s, completion) ==
    /\ reqs[s].pc = "completing"
    /\ IF Throws(completion)
       THEN Failed(s, completion)
       ELSE LET message == MessageNow(Chosen(completion), reqs[s].user, "bot")
            IN  /\ chats' = Pushed(reqs[s].chat, message)
                /\ uuids' = uuids + 1
                /\ reqs' = [reqs EXCEPT ![s] =
                       Respond([@ EXCEPT !.response = completion], 200,
                               [message |-> MessageToJson(message)])]
                /\ UNCHANGED createLog
    /\ UNCHANGED client

\* chatRouter.get('/:id/')
GetChat(s) ==
    /\ Entered(s, "GET /chat/:id/")
    /\ LET i == FindChat(reqs[s].id, Uid(s))
       IN  reqs' = [reqs EXCEPT ![s] =
               IF i = 0
               THEN Respond(Bound(@, Uid(s)), 404, Send("Chat not found"))
               ELSE Respond(Bound(@, Uid(s)), 200, [chat |-> ChatToJson(chats[i])])]
    /\ UNCHANGED <<server, client>>

\* chats.filter(...) with the test left out
UserChatsAll(uid) == chats

\* chats.filter(chat => chat.userId === user.uid)
UserChats(uid) == SelectSeq(chats, LAMBDA chat : chat.userId = uid)

\* chatRouter.get('/')
ListChats(s) ==
    /\ Entered(s, "GET /chat/")
    /\ LET userChats == UserChats(Uid(s))
       IN  reqs' = [reqs EXCEPT ![s] =
               Respond(Bound(@, Uid(s)), 200,
                       [chats |-> [k \in 1 .. Len(userChats) |-> ChatToJson(userChats[k])]])]
    /\ UNCHANGED <<server, client>>

----------------------------------------------------------------------------
(* The callers of Spec: any request, on any free connection *)

Budget(route) == route \in Allocating => uuids + Pending < MaxUuids

\* The ids a caller can name: those of the chats there are, and one of no chat.
KnownIds == {0} \cup {chats[i].id : i \in 1 .. Len(chats)}

\* The connection a new request takes: the first one that is free
FreeSlots == {s \in Slots : reqs[s].pc = "free"}

Request(s) ==
    /\ FreeSlots # {}
    /\ s = Min(FreeSlots)
    /\ \E route \in Routes, header \in Headers :
         \E id \in (IF route \in IdRoutes THEN KnownIds ELSE {0}) :
           \E text \in (IF route = "POST /chat/:id/messages/" THEN UserTexts ELSE {Null}) :
             /\ Budget(route)
             /\ reqs' = [reqs EXCEPT ![s] = Arrival(route, header, id, text, "caller")]
    /\ UNCHANGED <<server, client>>

\* The caller has read the response; the connection takes the next request.
Received(s) ==
    /\ reqs[s].pc = "responded"
    /\ reqs[s].caller = "caller"
    /\ reqs' = [reqs EXCEPT ![s] = FreeSlot]
    /\ UNCHANGED <<server, client>>

----------------------------------------------------------------------------
(* The client's state *)

NoChat == [none |-> TRUE]      \* _currentChat == null
NoId == 0                      \* sp.getString('chatId') == null

\* The calls of ChatProvider that can be in flight: loadCurrentOrCreateChat
\* of the start-up listener, startNewChat of each refresh tap, and
\* sendMessage / requestResponse of onSendPressed.
LoadOp == <<"load", 0>>
SendOp == <<"send", 0>>
TapOps == {<<"tap", k>> : k \in 1 .. MaxTaps}
OpIds == {LoadOp, SendOp} \cup TapOps

IdleOp == [pc |-> "idle", slot |-> 0, chat |-> NoChat]

Init ==
    /\ chats = <<>>
    /\ uuids = 0
    /\ createLog = <<>>
    /\ reqs = [s \in Slots |-> FreeSlot]
    /\ currentChat = NoChat
    /\ prefs = NoId
    /\ spCached = FALSE
    /\ spWrites = <<>>
    /\ ops = [o \in OpIds |-> IdleOp]
    /\ restarts = 0

Server(s) ==
    \/ Unauthorized(s)
    \/ CreateChat(s)
    \/ PostMessage(s)
    \/ GetResponse(s)
    \/ \E completion \in Completions : Completed(s, completion)
    \/ GetChat(s)
    \/ ListChats(s)

Next ==
    \E s \in Slots : Request(s) \/ Server(s) \/ Received(s)

Spec == Init /\ [][Next]_vars

----------------------------------------------------------------------------
(* Properties of the server *)

IsPrefix(a, b) == Len(a) <= Len(b) /\ SubSeq(b, 1, Len(a)) = a

Last(seq) == seq[Len(seq)]

\* The chats whose id is chatId, whoever owns them
ChatsWithId(chatId) == {i \in 1 .. Len(chats) : chats[i].id = chatId}

\* Request s is answered, or suspended on the completion, in this step
Handled(s) == reqs[s].pc = "verifying" /\ reqs'[s].pc # "verifying"

\* The completion of request s settles in this step
Settled(s) == reqs[s].pc = "completing" /\ reqs'[s].pc = "responded"

\* C1: every chat created for user u is found by u and by nobody else: a
\* request of u with its id resolves to that chat (GET returns it, POST
\* appends to it, the reply request reads it), a request of any other
\* authenticated user is answered 404 "Chat not found", carries none of the
\* chat and leaves the store unchanged.
C1_OwnershipIsolation ==
    [][/\ \A k \in 1 .. Len(createLog) :
            \E i \in 1 .. Len(chats) :
               /\ chats[i].id = createLog[k][2]
               /\ chats[i].userId = createLog[k][1]
               /\ \A v \in Users :
                    FindChat(chats[i].id, v) = IF v = createLog[k][1] THEN i ELSE 0
       /\ \A s \in Slots :
            (Handled(s) /\ reqs'[s].entered /\ reqs[s].route \in IdRoutes) =>
              \A i \in ChatsWithId(reqs[s].id) :
                 IF chats[i].userId = reqs'[s].user
                 THEN /\ reqs'[s].status # 404
                      /\ reqs[s].route = "GET /chat/:id/" =>
                           reqs'[s].body = [chat |-> ChatToJson(chats[i])]
                      /\ reqs[s].route = "POST /chat/:id/messages/" =>
                           /\ Len(chats'[i].messages) = Len(chats[i].messages) + 1
                           /\ reqs'[s].body = [message |-> Last(chats'[i].messages)]
                      /\ reqs[s].route = "GET /chat/:id/response/" =>
                           /\ reqs'[s].pc = "completing"
                           /\ reqs'[s].chat = i
                           /\ reqs'[s].history = MapMessages(chats[i])
                 ELSE /\ reqs'[s].pc = "responded"
                      /\ reqs'[s].status = 404
                      /\ reqs'[s].body = Send("Chat not found")
                      /\ chats' = chats
      ]_vars

\* A user was answered 404 for a chat of another user that holds messages,
\* while the owner was answered with the chat.
C1_Witness ==
    \E s, t \in Slots : \E i \in 1 .. Len(chats) :
       /\ reqs[s].pc = "responded" /\ reqs[s].entered
       /\ reqs[s].route \in IdRoutes /\ reqs[s].id = chats[i].id
       /\ reqs[s].user # chats[i].userId /\ reqs[s].status = 404
       /\ Len(chats[i].messages) > 0
       /\ reqs[t].pc = "responded" /\ reqs[t].route = "GET /chat/:id/"
       /\ reqs[t].id = chats[i].id /\ reqs[t].user = chats[i].userId
       /\ reqs[t].status = 200

\* The header carries no token, or one the identity provider did not sign.
Rejected(header) ==
    \/ header = NoHeader
    \/ Len(header) < 2
    \/ header[2] \notin DOMAIN IdTokens

\* C2: a request without an Authorization header, or with a credential the
\* verifier rejects, is answered 401 "Unauthorized"; no step of it enters a
\* route handler or changes the store (chats, messages, identifiers).
C2_UnauthorizedNoMutation ==
    [][\A s \in Slots :
         (reqs'[s] # reqs[s] /\ reqs'[s].pc # "free" /\ Rejected(reqs'[s].header)) =>
            /\ ~reqs'[s].entered
            /\ reqs'[s].user = Null
            /\ reqs'[s].pc \in {"verifying", "responded"}
            /\ reqs'[s].pc = "responded" =>
                 reqs'[s].status = 401 /\ reqs'[s].body = Send("Unauthorized")
            /\ server' = server
      ]_vars

\* Requests without a header and with a forged token were answered 401 on a
\* store that holds a chat with a message.
C2_Witness ==
    \E s, t \in Slots :
       /\ reqs[s].pc = "responded" /\ reqs[s].header = NoHeader
       /\ reqs[s].status = 401
       /\ reqs[t].pc = "responded" /\ reqs[t].header = BearerOf("forged")
       /\ reqs[t].status = 401
       /\ \E i \in 1 .. Len(chats) : Len(chats[i].messages) > 0

\* The step in which request s answers 200 to a reply request
Replied(s) == Settled(s) /\ reqs'[s].status = 200

\* C3 as stated: a reply request on a chat that has N messages leaves the
\* chat with N+1 messages, the last one the Bot message with the Bridge's
\* text, which is the message returned.  (Stated for N >= 1: whether the
\* completion API answers an empty history is not the server's to decide.)
C3_AsStated ==
    [][\A s \in Slots : (Replied(s) /\ Len(reqs[s].history) >= 1) =>
         LET after == chats'[reqs[s].chat].messages
         IN  /\ Len(after) = Len(reqs[s].history) + 1
             /\ Last(after).sender = "bot"
             /\ Last(after).text = reqs'[s].response.choices[1]
             /\ reqs'[s].body = [message |-> Last(after)]
      ]_vars

\* C3 amended: when the completion settles with text T, the chat gets
\* exactly one more message than it has at that moment, appended last, with
\* sender Bot, text T and the requester's userId, and it is the message
\* returned; the messages handed to the Bridge are a prefix of the chat's.
C3_ReplyAppended ==
    [][\A s \in Slots : Replied(s) =>
         LET before == chats[reqs[s].chat].messages
             after == chats'[reqs[s].chat].messages
         IN  /\ Len(after) = Len(before) + 1
             /\ SubSeq(after, 1, Len(before)) = before
             /\ Len(before) >= Len(reqs[s].history)
             /\ reqs[s].history =
                  SubSeq(MapMessages(chats[reqs[s].chat]), 1, Len(reqs[s].history))
             /\ Last(after).sender = "bot"
             /\ Last(after).text = reqs'[s].response.choices[1]
             /\ Last(after).userId = reqs[s].user
             /\ reqs'[s].body = [message |-> Last(after)]
             /\ chats[reqs[s].chat].userId = reqs[s].user
             /\ chats[reqs[s].chat].id = reqs[s].id
      ]_vars

\* A reply was appended to a chat that had grown since its history of one
\* message was read.
C3_Witness ==
    \E s \in Slots :
       /\ reqs[s].pc = "responded" /\ reqs[s].route = "GET /chat/:id/response/"
       /\ reqs[s].status = 200
       /\ Len(reqs[s].history) >= 1
       /\ reqs[s].response.choices = <<"hello", "other">>
       /\ reqs[s].body.message.text = "hello"
       /\ Len(chats[reqs[s].chat].messages) = Len(reqs[s].history) + 2
       /\ Last(chats[reqs[s].chat].messages).id = reqs[s].body.message.id

\* C4: a user message appended by the owner to a chat with N messages gives
\* N+1 messages; the new one is last, has sender User, the appending user's
\* userId and the request's text, and is the message returned.
C4_UserAppend ==
    [][\A s \in Slots :
         (Handled(s) /\ reqs[s].route = "POST /chat/:id/messages/"
            /\ reqs'[s].status = 200) =>
           \E i \in ChatsWithId(reqs[s].id) :
              /\ chats[i].userId = reqs'[s].user
              /\ chats'[i].messages = Append(chats[i].messages, Last(chats'[i].messages))
              /\ Last(chats'[i].messages).sender = "user"
              /\ Last(chats'[i].messages).userId = reqs'[s].user
              /\ Last(chats'[i].messages).text = reqs[s].text
              /\ reqs'[s].body = [message |-> Last(chats'[i].messages)]
              /\ \A j \in 1 .. Len(chats) : j # i => chats'[j] = chats[j]
      ]_vars

\* The owner appended to a chat that already held a message.
C4_Witness ==
    \E s \in Slots : \E i \in 1 .. Len(chats) :
       /\ reqs[s].pc = "responded" /\ reqs[s].route = "POST /chat/:id/messages/"
       /\ reqs[s].status = 200 /\ reqs[s].id = chats[i].id
       /\ Len(chats[i].messages) >= 2
       /\ reqs[s].body = [message |-> Last(chats[i].messages)]
       /\ Last(chats[i].messages).text = "hi"

\* The Bridge failed: the call rejected, or its reply has no usable choice.
BridgeFailed(completion) ==
    \/ completion.error \in {"network", "api"}
    \/ completion.choices = <<>>
    \/ completion.choices[1] = NoMessage

CreatedBy(uid) == SelectSeq(createLog, LAMBDA e : e[1] = uid)

\* C6: GET /chat/ by user u returns the chats of u only, in creation order,
\* as many as u created so far.
C6_ListByUser ==
    [][\A s \in Slots : (Handled(s) /\ reqs'[s].entered /\ reqs[s].route = "GET /chat/") =>
          LET list == reqs'[s].body.chats
              made == CreatedBy(reqs'[s].user)
          IN  /\ reqs'[s].status = 200
              /\ Len(list) = Len(made)
              /\ \A k \in 1 .. Len(list) :
                    /\ list[k].userId = reqs'[s].user
                    /\ list[k].id = made[k][2]
                    /\ \E i \in 1 .. Len(chats) : list[k] = ChatToJson(chats[i])
      ]_vars

\* A user was listed two chats while another user's chat lies between them.
C6_Witness ==
    \E s \in Slots :
       /\ reqs[s].pc = "responded" /\ reqs[s].route = "GET /chat/"
       /\ reqs[s].status = 200
       /\ Len(reqs[s].body.chats) = 2
       /\ Len(chats) = 3
       /\ chats[2].userId # reqs[s].user

\* The ids of all messages of all chats
MessageIds(i) == {chats[i].messages[k].id : k \in 1 .. Len(chats[i].messages)}

\* C7: in every step every chat stays in the store at its place with its id,
\* userId and title, and its messages before the step are a prefix of its
\* messages after it; no message is in two chats or twice in one.
C7_AppendOnly ==
    [][/\ \A i \in 1 .. Len(chats) :
            /\ i <= Len(chats')
            /\ chats'[i].id = chats[i].id
            /\ chats'[i].userId = chats[i].userId
            /\ chats'[i].title = chats[i].title
            /\ IsPrefix(chats[i].messages, chats'[i].messages)
       /\ \A i, j \in 1 .. Len(chats') :
            /\ i # j => MessageIds(i)' \cap MessageIds(j)' = {}
            /\ Cardinality(MessageIds(i)') = Len(chats'[i].messages)
      ]_vars

\* Two chats, one of them with a user message followed by a reply.
C7_Witness ==
    /\ Len(chats) >= 2
    /\ \E i \in 1 .. Len(chats) :
          /\ Len(chats[i].messages) >= 2
          /\ chats[i].messages[1].sender = "user"
          /\ chats[i].messages[2].sender = "bot"

\* C8: a reply request that waits for its completion holds nothing: another
\* reply request of the owner on the same chat can read the history at once,
\* and either completion can settle at once.  (The state the claim says is
\* reachable is C8_Witness.)
C8_NoSerialisation ==
    \A s, t \in Slots :
       (/\ s # t
        /\ reqs[s].pc = "completing"
        /\ reqs[t].pc = "verifying"
        /\ reqs[t].route = "GET /chat/:id/response/"
        /\ reqs[t].id = reqs[s].id
        /\ BearerToken(reqs[t].header) \in DOMAIN IdTokens
        /\ IdTokens[BearerToken(reqs[t].header)] = reqs[s].user)
       => /\ ENABLED GetResponse(t)
          /\ \A c \in Completions : ENABLED Completed(s, c)

\* Two reply requests read the same history of N >= 1 messages and the chat
\* now has N+2 messages, the last two the Bot messages they returned.
C8_Witness ==
    \E s, t \in Slots :
       /\ s # t
       /\ reqs[s].pc = "responded" /\ reqs[t].pc = "responded"
       /\ reqs[s].route = "GET /chat/:id/response/"
       /\ reqs[t].route = "GET /chat/:id/response/"
       /\ reqs[s].status = 200 /\ reqs[t].status = 200
       /\ reqs[s].chat = reqs[t].chat
       /\ reqs[s].history = reqs[t].history
       /\ Len(reqs[s].history) >= 1
       /\ LET messages == chats[reqs[s].chat].messages
              N == Len(reqs[s].history)
          IN  /\ Len(messages) = N + 2
              /\ [message |-> messages[N + 1]] = reqs[s].body
              /\ [message |-> messages[N + 2]] = reqs[t].body
              /\ messages[N + 1].sender = "bot"
              /\ messages[N + 2].sender = "bot"

----------------------------------------------------------------------------
(* The Flutter client: ChatProvider and the widgets that call it.  Every   *)
(* request carries the token AuthProvider put in the Dio headers.          *)

ClientUser == "alice"

\* 'Bearer ${token!}' as split('Bearer ') cuts it
ClientHeader == BearerOf("tokenAlice")

\* A chat id the installation kept from an earlier life of the server
StaleId == MaxUuids + 1

\* Sender.fromJson
SenderFromJson(json) ==
    CASE json = "user" -> "Sender.user"
      [] json = "bot" -> "Sender.bot"

\* ChatMessage.fromJson
ChatMessageFromJson(json) ==
    [id |-> json.id, text |-> json.text, sender |-> SenderFromJson(json.sender)]

\* ChatMessage.fromJson throws: text is not a String
FromJsonThrows(json) == json.text = Null

\* Chat.fromJson
ChatFromJson(json) ==
    [id |-> json.id, title |-> json.title,
     messages |-> [k \in 1 .. Len(json.messages) |-> ChatMessageFromJson(json.messages[k])]]

\* String.trim() on the texts the input field holds
InputTexts == {"hi", " hi "}
Trim(text) == IF text = " hi " THEN "hi" ELSE text

\* Identifiers the requests in flight and the GET a pending send will make
\* may still take
AppPending == Pending + (IF ops[SendOp].pc = "sendMessage" THEN 1 ELSE 0)

AppBudget(n) == uuids + AppPending + n <= MaxUuids

\* Dio sends a request on a free connection
Sent(route, id, text) ==
    [reqs EXCEPT ![Min(FreeSlots)] = Arrival(route, ClientHeader, id, text, "app")]

\* The response of the request op o awaits has arrived
Answered(o, pc) ==
    /\ ops[o].pc = pc
    /\ reqs[ops[o].slot].pc = "responded"

Finished(o) == IF o = LoadOp THEN [IdleOp EXCEPT !.pc = "done"] ELSE IdleOp

\* loadCurrentOrCreateChat: getInstance completes, then loadChat(chatId) or
\* startNewChat() up to their request
LoadStarted ==
    /\ ops[LoadOp].pc = "start"
    /\ FreeSlots # {}
    /\ spCached' = TRUE
    /\ IF prefs = NoId
       THEN /\ AppBudget(1)
            /\ reqs' = Sent("POST /chat/", 0, Null)
            /\ ops' = [ops EXCEPT ![LoadOp] = [IdleOp EXCEPT !.pc = "post",
                                                            !.slot = Min(FreeSlots)]]
       ELSE /\ reqs' = Sent("GET /chat/:id/", prefs, Null)
            /\ ops' = [ops EXCEPT ![LoadOp] = [IdleOp EXCEPT !.pc = "loadChat",
                                                            !.slot = Min(FreeSlots)]]
    /\ UNCHANGED <<server, currentChat, prefs, spWrites, restarts>>

\* loadChat after its await; on a DioException the catch of
\* loadCurrentOrCreateChat calls startNewChat
ChatLoaded ==
    /\ Answered(LoadOp, "loadChat")
    /\ LET s == ops[LoadOp].slot
       IN  IF reqs[s].status = 200
           THEN /\ currentChat' = ChatFromJson(reqs[s].body.chat)
                /\ reqs' = [reqs EXCEPT ![s] = FreeSlot]
                /\ ops' = [ops EXCEPT ![LoadOp] = Finished(LoadOp)]
           ELSE /\ AppBudget(1)
                /\ reqs' = [reqs EXCEPT ![s] =
                       Arrival("POST /chat/", ClientHeader, 0, Null, "app")]
                /\ ops' = [ops EXCEPT ![LoadOp] = [IdleOp EXCEPT !.pc = "post", !.slot = s]]
                /\ UNCHANGED currentChat
    /\ UNCHANGED <<server, prefs, spCached, spWrites, restarts>>

\* The refresh button: startNewChat up to its request
RefreshPressed(o) ==
    /\ o \in TapOps
    /\ ops[o].pc = "idle"
    /\ FreeSlots # {}
    /\ AppBudget(1)
    /\ reqs' = Sent("POST /chat/", 0, Null)
    /\ ops' = [ops EXCEPT ![o] = [IdleOp EXCEPT !.pc = "post", !.slot = Min(FreeSlots)]]
    /\ UNCHANGED <<server, currentChat, prefs, spCached, spWrites, restarts>>

\* sp.setString('chatId', chat.id): the value is written when the call is
\* made, its future completes later
SetString(o, chat) ==
    /\ prefs' = chat.id
    /\ spWrites' = Append(spWrites, o)
    /\ ops' = [ops EXCEPT ![o] = [IdleOp EXCEPT !.pc = "setString", !.chat = chat]]

\* startNewChat after the await of its POST: Chat.fromJson, getInstance
\* (which suspends until the instance exists) and the call of setString
ChatCreated(o) ==
    /\ Answered(o, "post")
    /\ LET s == ops[o].slot
           chat == ChatFromJson(reqs[s].body.chat)
       IN  /\ reqs' = [reqs EXCEPT ![s] = FreeSlot]
           /\ IF reqs[s].status # 200
              THEN /\ ops' = [ops EXCEPT ![o] = Finished(o)]
                   /\ UNCHANGED <<prefs, spWrites>>
              ELSE IF spCached
                   THEN SetString(o, chat)
                   ELSE /\ ops' = [ops EXCEPT ![o] =
                               [IdleOp EXCEPT !.pc = "getInstance", !.chat = chat]]
                        /\ UNCHANGED <<prefs, spWrites>>
    /\ UNCHANGED <<server, currentChat, spCached, restarts>>

\* startNewChat after the await of getInstance
GotInstance(o) ==
    /\ ops[o].pc = "getInstance"
    /\ spCached' = TRUE
    /\ SetString(o, ops[o].chat)
    /\ UNCHANGED <<server, reqs, currentChat, restarts>>

\* startNewChat after the await of setString: _currentChat = chat
StringSet(o) ==
    /\ ops[o].pc = "setString"
    /\ spWrites # <<>>
    /\ Head(spWrites) = o
    /\ spWrites' = Tail(spWrites)
    /\ currentChat' = ops[o].chat
    /\ ops' = [ops EXCEPT ![o] = Finished(o)]
    /\ UNCHANGED <<server, reqs, prefs, spCached, restarts>>

\* _currentChat!.messages.add(message), _currentChat read after the await
AddedToCurrent(message) ==
    [currentChat EXCEPT !.messages = Append(@, message)]

\* onSendPressed: sendMessage(text.trim()) up to its request; with no
\* current chat sendMessage and requestResponse return null
SendPressed(text) ==
    /\ ops[SendOp].pc = "idle"
    /\ currentChat # NoChat
    /\ FreeSlots # {}
    /\ AppBudget(2)
    /\ reqs' = Sent("POST /chat/:id/messages/", currentChat.id, Trim(text))
    /\ ops' = [ops EXCEPT ![SendOp] = [IdleOp EXCEPT !.pc = "sendMessage",
                                                    !.slot = Min(FreeSlots)]]
    /\ UNCHANGED <<server, currentChat, prefs, spCached, spWrites, restarts>>

\* sendMessage after its await, then requestResponse up to its request
MessageSent ==
    /\ Answered(SendOp, "sendMessage")
    /\ LET s == ops[SendOp].slot
       IN  IF reqs[s].status = 200
           THEN /\ currentChat' =
                     AddedToCurrent(ChatMessageFromJson(reqs[s].body.message))
                /\ reqs' = [reqs EXCEPT ![s] =
                       Arrival("GET /chat/:id/response/", ClientHeader, currentChat.id,
                               Null, "app")]
                /\ ops' = [ops EXCEPT ![SendOp] =
                       [IdleOp EXCEPT !.pc = "requestResponse", !.slot = s]]
           ELSE /\ reqs' = [reqs EXCEPT ![s] = FreeSlot]
                /\ ops' = [ops EXCEPT ![SendOp] = IdleOp]
                /\ UNCHANGED currentChat
    /\ UNCHANGED <<server, prefs, spCached, spWrites, restarts>>

\* requestResponse after its await
ResponseReceived ==
    /\ Answered(SendOp, "requestResponse")
    /\ LET s == ops[SendOp].slot
       IN  /\ reqs' = [reqs EXCEPT ![s] = FreeSlot]
           /\ ops' = [ops EXCEPT ![SendOp] = IdleOp]
           /\ IF reqs[s].status = 200 /\ ~FromJsonThrows(reqs[s].body.message)
              THEN currentChat' =
                     AddedToCurrent(ChatMessageFromJson(reqs[s].body.message))
              ELSE UNCHANGED currentChat
    /\ UNCHANGED <<server, prefs, spCached, spWrites, restarts>>

\* The app is closed and opened again: the preferences stay, the signed-in
\* listener of _HomeState calls loadCurrentOrCreateChat
Restarted ==
    /\ restarts < MaxRestarts
    /\ restarts' = restarts + 1
    /\ currentChat' = NoChat
    /\ spCached' = FALSE
    /\ spWrites' = <<>>
    /\ ops' = [o \in OpIds |-> IF o = LoadOp THEN [IdleOp EXCEPT !.pc = "start"] ELSE IdleOp]
    /\ reqs' = [s \in Slots |->
           IF reqs[s].caller = "app" THEN [reqs[s] EXCEPT !.caller = "gone"] ELSE reqs[s]]
    /\ UNCHANGED <<server, prefs>>

\* The response to a request of a closed app reaches nobody
Dropped(s) ==
    /\ reqs[s].pc = "responded"
    /\ reqs[s].caller = "gone"
    /\ reqs' = [reqs EXCEPT ![s] = FreeSlot]
    /\ UNCHANGED <<server, client>>

AppInit ==
    /\ chats = <<>>
    /\ uuids = 0
    /\ createLog = <<>>
    /\ reqs = [s \in Slots |-> FreeSlot]
    /\ currentChat = NoChat
    /\ prefs \in {NoId, StaleId}
    /\ spCached = FALSE
    /\ spWrites = <<>>
    /\ ops = [o \in OpIds |-> IF o = LoadOp THEN [IdleOp EXCEPT !.pc = "start"] ELSE IdleOp]
    /\ restarts = 0

AppNext ==
    \/ LoadStarted
    \/ ChatLoaded
    \/ \E o \in TapOps : RefreshPressed(o)
    \/ \E o \in OpIds : ChatCreated(o) \/ GotInstance(o) \/ StringSet(o)
    \/ \E text \in InputTexts : SendPressed(text)
    \/ MessageSent
    \/ ResponseReceived
    \/ Restarted
    \/ \E s \in Slots :
          \/ CreateChat(s)
          \/ PostMessage(s)
          \/ GetResponse(s)
          \/ \E completion \in Completions : Completed(s, completion)
          \/ GetChat(s)
          \/ Dropped(s)

AppSpec == AppInit /\ [][AppNext]_vars

----------------------------------------------------------------------------
(* Properties of the client *)

\* The place of the message with this id in a sequence of messages, 0 if none
Place(messages, id) ==
    LET at == {k \in 1 .. Len(messages) : messages[k].id = id}
    IN  IF at = {} THEN 0 ELSE Min(at)

\* C9: every message of the client's current chat is a message of the
\* server's chat with the same id (same id, text and sender), and the
\* client holds them in the server's order.
C9_ClientAgreesWithServer ==
    currentChat # NoChat =>
       \E i \in 1 .. Len(chats) :
          /\ chats[i].id = currentChat.id
          /\ \A k \in 1 .. Len(currentChat.messages) :
                LET p == Place(chats[i].messages, currentChat.messages[k].id)
                IN  /\ p # 0
                    /\ currentChat.messages[k] =
                         ChatMessageFromJson(MessageToJson(chats[i].messages[p]))
                    /\ \A l \in 1 .. k - 1 :
                          Place(chats[i].messages, currentChat.messages[l].id) < p

\* No call of ChatProvider is in flight
Quiet == \A o \in OpIds : ops[o].pc \in {"idle", "done"}

\* C10: when no call of ChatProvider is in flight and a current chat is set,
\* the persisted 'chatId' is the id of the current chat.
C10_SessionPointer ==
    (Quiet /\ currentChat # NoChat) => prefs = currentChat.id

====
